---- MODULE Spec2Model ----
(***************************************************************************)
(* Model of the schedule handlers of the railway operations server:        *)
(*   server/routes.ts     checkScheduleConflicts, POST /api/schedules,     *)
(*                        POST /api/schedules/import, PATCH and DELETE     *)
(*                        /api/schedules/:id                               *)
(*   server/websocket.ts  the "updateSchedule" socket handler and its      *)
(*                        "scheduleUpdated" broadcast                      *)
(*   client hooks         useSocket: the "scheduleUpdated" listener        *)
(*   server/routes.ts     DELETE /api/locations/:id, POST                  *)
(*                        /api/admin/clean-tables                          *)
(* Instants and calendar dates are small integers; SQL NULL / JS null is   *)
(* NULL.  runningDays is a sequence of booleans, index 1 standing for the  *)
(* code's index 0 (Monday).                                                *)
(***************************************************************************)
EXTENDS Integers, Sequences, FiniteSets, TLC

VARIABLES schedules, nextId, reqs, pending, outcome, cache, trains, locations

vars == <<schedules, nextId, reqs, pending, outcome, cache, trains, locations>>

\* ------------------------------------------------------------------ bounds
MaxSchedules == 2      \* rows ever inserted in one behaviour
MaxTime == 3           \* instants 1..MaxTime (conflict-detection domain)
MaxDate == 3           \* calendar dates 1..MaxDate (conflict-detection domain)
NumTrains == 2         \* rows of the trains table
NumRequests == 2       \* create requests that can be in flight together
MaxPending == 2        \* socket handlers between their write and their emit
NumLocations == 2      \* rows of the locations table
MaxCache == 2          \* schedules in the client's cached list

\* ------------------------------------------------------- values and schema
NULL == 0

TrainIds == 1..NumTrains
LocationIds == 1..NumLocations
Times == 1..MaxTime
Dates == 1..MaxDate
Requests == 1..NumRequests

\* '9999-12-31', the date the query substitutes for an absent candidate end
FarFuture == MaxDate + 1

Statuses == {"scheduled", "running", "delayed", "completed", "cancelled"}

\* the column defaults of the schedules table
DefaultStatus == "scheduled"
DefaultIsCancelled == FALSE

Week(days) == [i \in 1..7 |-> i \in days]
MonFri == Week(1..5)
MonWedFri == Week({1, 3, 5})
SatSun == Week({6, 7})
AllDays == Week(1..7)

Min(a, b) == IF a <= b THEN a ELSE b
Max(a, b) == IF a >= b THEN a ELSE b

\* ------------------------------------------------- checkScheduleConflicts
\* mutation: the periods taken as closed intervals
OverlapsInclusive(s1, e1, s2, e2) ==
  Min(s1, e1) <= Max(s2, e2) /\ Min(s2, e2) <= Max(s1, e1)

\* PostgreSQL (s1, e1) OVERLAPS (s2, e2): each pair is ordered first, a
\* period is half-open, and a period of equal ends is a single instant.
Overlaps(s1, e1, s2, e2) ==
  LET ts1 == Min(s1, e1)
      te1 == Max(s1, e1)
      ts2 == Min(s2, e2)
      te2 == Max(s2, e2)
  IN  IF ts1 > ts2 THEN ts1 < te2
      ELSE IF ts1 < ts2 THEN ts2 < te1
      ELSE TRUE

\* mutation: the candidate's absent end date not replaced by '9999-12-31'
\* (a comparison with NULL is not true)
DateClauseNoSentinel(row, effectiveStartDate, effectiveEndDate) ==
  /\ effectiveEndDate # NULL
  /\ row.effectiveStartDate <= effectiveEndDate
  /\ (row.effectiveEndDate = NULL \/ row.effectiveEndDate >= effectiveStartDate)

\* effective_start_date <= (candidate end || '9999-12-31')
\* AND (effective_end_date IS NULL OR effective_end_date >= candidate start)
DateClause(row, effectiveStartDate, effectiveEndDate) ==
  /\ row.effectiveStartDate <=
       (IF effectiveEndDate # NULL THEN effectiveEndDate ELSE FarFuture)
  /\ (row.effectiveEndDate = NULL \/ row.effectiveEndDate >= effectiveStartDate)

\* mutation: the exclusion fragment left out of the query
ExcludeClauseDropped(row, excludeScheduleId) == TRUE

\* ${excludeScheduleId ? sql`AND id != ${excludeScheduleId}` : sql``}
ExcludeClause(row, excludeScheduleId) ==
  IF excludeScheduleId # NULL THEN row.id # excludeScheduleId ELSE TRUE

\* mutation: the train_id condition left out
WhereClauseAnyTrain(row, trainId, scheduledDeparture, scheduledArrival, effectiveStartDate, effectiveEndDate, excludeScheduleId) ==
  /\ row.isCancelled = FALSE
  /\ Overlaps(row.scheduledDeparture, row.scheduledArrival,
              scheduledDeparture, scheduledArrival)
  /\ DateClause(row, effectiveStartDate, effectiveEndDate)
  /\ ExcludeClause(row, excludeScheduleId)

\* the WHERE clause of the query, for one row of the schedules table
WhereClause(row, trainId, scheduledDeparture, scheduledArrival, effectiveStartDate, effectiveEndDate, excludeScheduleId) ==
  /\ row.trainId = trainId
  /\ row.isCancelled = FALSE
  /\ Overlaps(row.scheduledDeparture, row.scheduledArrival,
              scheduledDeparture, scheduledArrival)
  /\ DateClause(row, effectiveStartDate, effectiveEndDate)
  /\ ExcludeClause(row, excludeScheduleId)

\* mutation: the running-days filter left out
RunningDaysIgnored(rowDays, runningDays) == TRUE

\* schedule.runningDays.some((runs, index) => runs && runningDays[index]);
\* an index past the end of the candidate's array reads undefined (falsy)
RunningDaysOverlap(rowDays, runningDays) ==
  \E i \in 1..Len(rowDays) :
    rowDays[i] /\ (i <= Len(runningDays) /\ runningDays[i])

\* the ids of the rows checkScheduleConflicts returns for the table `store`
checkScheduleConflicts(store, trainId, scheduledDeparture, scheduledArrival, effectiveStartDate, effectiveEndDate, runningDays, excludeScheduleId) ==
  {id \in DOMAIN store :
     /\ WhereClause(store[id], trainId, scheduledDeparture, scheduledArrival,
                    effectiveStartDate, effectiveEndDate, excludeScheduleId)
     /\ RunningDaysOverlap(store[id].runningDays, runningDays)}

\* the call of POST /api/schedules: no excludeScheduleId
ConflictsOf(store, c) ==
  checkScheduleConflicts(store, c.trainId, c.scheduledDeparture,
                         c.scheduledArrival, c.effectiveStartDate,
                         c.effectiveEndDate, c.runningDays, NULL)

\* --------------------------------------------------------------- the store
\* the values Postgres stores for the columns an insert leaves out
ColumnDefaults ==
  [actualDeparture |-> NULL, actualArrival |-> NULL, status |-> DefaultStatus,
   isCancelled |-> DefaultIsCancelled, effectiveEndDate |-> NULL]

\* the timestamp columns of the table: the driver serialises their values
\* with Date.toISOString, so a JSON string for one of them makes the query
\* builder throw
TimestampColumns ==
  {"scheduledDeparture", "scheduledArrival", "actualDeparture", "actualArrival"}

\* {id, scheduledDeparture, scheduledArrival} of each conflicting row
ConflictList(store, ids) ==
  {[id |-> i, scheduledDeparture |-> store[i].scheduledDeparture,
    scheduledArrival |-> store[i].scheduledArrival] : i \in ids}

\* the client's query cache for ['schedules']: undefined before the first
\* fetch, then the fetched list
Undefined == [loaded |-> FALSE, data |-> <<>>]

\* the state outside the schedules table and the create requests at start:
\* no socket message handled, nothing cached, the seeded trains and locations
InitElsewhere ==
  /\ outcome = "none"
  /\ cache = Undefined
  /\ trains = TrainIds
  /\ locations = LocationIds

\* the orders in which a query without ORDER BY can return the rows S
Listings(S) ==
  {l \in [1..Cardinality(S) -> S] : \A i, j \in 1..Cardinality(S) : l[i] = l[j] => i = j}

\* a request slot: where the create request is, and what it answered
IdleReq == [pc |-> "idle", code |-> 0, conflicts |-> {}, created |-> NULL]

\* capacity left for one more insert, counting the creates already past
\* their conflict check
RoomToInsert ==
  nextId + Cardinality({r \in Requests : reqs[r].pc = "checked"}) <= MaxSchedules

\* -------------------------------------------------- POST /api/schedules
\* new Date(x) of an unparseable string
InvalidDate == -1

\* the 400 answers before the conflict check; 0 when the body passes
ValidateCreate(body) ==
  IF body.scheduledDeparture = InvalidDate THEN 400
  ELSE IF body.scheduledArrival = InvalidDate THEN 400
  ELSE IF body.scheduledArrival <= body.scheduledDeparture THEN 400
  ELSE IF body.effectiveStartDate = InvalidDate THEN 400
  ELSE IF body.effectiveEndDate # NULL /\ body.effectiveEndDate = InvalidDate THEN 400
  ELSE IF body.effectiveEndDate # NULL
          /\ body.effectiveEndDate <= body.effectiveStartDate THEN 400
  ELSE 0

\* request r arrives with `body`: the validation, then the conflict query
\* (the handler's first await)
CreateBegin(r, body) ==
  /\ reqs[r].pc # "checked"
  /\ \/ RoomToInsert
     \/ ValidateCreate(body) # 0
     \/ ConflictsOf(schedules, body) # {}
  /\ IF ValidateCreate(body) # 0
       THEN reqs' = [reqs EXCEPT ![r] =
                       [pc |-> "done", code |-> ValidateCreate(body),
                        conflicts |-> {}, created |-> NULL]]
       ELSE reqs' = [reqs EXCEPT ![r] =
                       [pc |-> "checked", code |-> 0, body |-> body,
                        created |-> NULL,
                        conflicts |->
                          ConflictList(schedules, ConflictsOf(schedules, body))]]
  /\ UNCHANGED <<schedules, nextId, pending>>
  /\ UNCHANGED <<outcome, cache, trains, locations>>

\* the references of the schedules table: train_id to trains, the two
\* location ids to locations; a row that names a missing one is refused by
\* the database
ForeignKeysHold(row) ==
  /\ row.trainId \in trains
  /\ "departureLocationId" \in DOMAIN row => row.departureLocationId \in locations
  /\ "arrivalLocationId" \in DOMAIN row => row.arrivalLocationId \in locations

\* the row db.insert(schedules).values({...req.body, <the parsed dates>})
\* stores
InsertedRow(id, body) == [id |-> id] @@ body @@ ColumnDefaults

\* mutation: the 409 branch answers but does not return, so the insert runs
CreateFinishNoReturn(r) ==
  /\ reqs[r].pc = "checked"
  /\ schedules' = schedules @@ (nextId :> InsertedRow(nextId, reqs[r].body))
  /\ nextId' = nextId + 1
  /\ reqs' = [reqs EXCEPT ![r] =
       [pc |-> "done", code |-> IF reqs[r].conflicts # {} THEN 409 ELSE 200,
        conflicts |-> reqs[r].conflicts, created |-> nextId]]
  /\ UNCHANGED pending
  /\ UNCHANGED <<outcome, cache, trains, locations>>

\* request r resumes after the query: 409 with the conflicts, in the order
\* the query returned them, or the insert
CreateFinish(r) ==
  /\ reqs[r].pc = "checked"
  /\ IF reqs[r].conflicts # {}
       THEN /\ \E list \in Listings(reqs[r].conflicts) :
                 reqs' = [reqs EXCEPT ![r] =
                          [pc |-> "done", code |-> 409, list |-> list,
                           conflicts |-> reqs[r].conflicts, created |-> NULL]]
            /\ UNCHANGED <<schedules, nextId>>
       ELSE IF ~ForeignKeysHold(reqs[r].body)
       THEN /\ reqs' = [reqs EXCEPT ![r] =
                          [pc |-> "done", code |-> 400, conflicts |-> {},
                           created |-> NULL]]
            /\ UNCHANGED <<schedules, nextId>>
       ELSE /\ schedules' = schedules @@ (nextId :> InsertedRow(nextId, reqs[r].body))
            /\ nextId' = nextId + 1
            /\ reqs' = [reqs EXCEPT ![r] =
                          [pc |-> "done", code |-> 200, conflicts |-> {},
                           created |-> nextId]]
  /\ UNCHANGED pending
  /\ UNCHANGED <<outcome, cache, trains, locations>>

\* ------------------------------------------- POST /api/schedules/import
\* one row of the sheet, processed on the date `today`: the train lookup, the
\* ordering check, the insert.  A row that fails a check only adds to the
\* error list.
ImportRow(row, today) ==
  /\ RoomToInsert
  /\ IF \/ row.trainNumber \notin trains
        \/ row.scheduledArrival <= row.scheduledDeparture
       THEN UNCHANGED <<schedules, nextId>>
       ELSE /\ schedules' = schedules @@
                 (nextId :>
                    ([id |-> nextId, trainId |-> row.trainNumber,
                      scheduledDeparture |-> row.scheduledDeparture,
                      scheduledArrival |-> row.scheduledArrival,
                      isCancelled |-> FALSE, runningDays |-> AllDays,
                      effectiveStartDate |-> today]
                     @@ (IF "status" \in DOMAIN row
                           THEN [status |-> row.status] ELSE <<>>)
                     @@ ColumnDefaults))
            /\ nextId' = nextId + 1
  /\ UNCHANGED <<reqs, pending>>
  /\ UNCHANGED <<outcome, cache, trains, locations>>

\* ---------------------------------------- PATCH / DELETE /api/schedules/:id
\* the timestamp columns declared notNull()
NotNullColumns == {"scheduledDeparture", "scheduledArrival"}

\* a JSON body fails the update when it gives a timestamp column a value
\* that is not null (a string: the driver calls toISOString on it), or gives
\* null to one declared notNull
PatchThrows(body) ==
  \E c \in DOMAIN body \cap TimestampColumns :
    body[c] # NULL \/ c \in NotNullColumns

\* mutation: the body is written whatever it holds
PatchScheduleRaw(id, body) ==
  /\ IF id \notin DOMAIN schedules
       THEN UNCHANGED schedules
       ELSE schedules' = [schedules EXCEPT ![id] = body @@ @]
  /\ UNCHANGED <<nextId, reqs, pending>>
  /\ UNCHANGED <<outcome, cache, trains, locations>>

\* db.update(schedules).set(req.body).where(id = :id); `body` is the JSON
\* body, a record of columns.  A body that fails the update is answered 400;
\* an id that matches no row updates nothing.
PatchSchedule(id, body) ==
  /\ IF PatchThrows(body) \/ id \notin DOMAIN schedules
       THEN UNCHANGED schedules
       ELSE schedules' = [schedules EXCEPT ![id] = body @@ @]
  /\ UNCHANGED <<nextId, reqs, pending>>
  /\ UNCHANGED <<outcome, cache, trains, locations>>

\* db.delete(schedules).where(id = :id)
DeleteSchedule(id) ==
  /\ schedules' = [i \in DOMAIN schedules \ {id} |-> schedules[i]]
  /\ UNCHANGED <<nextId, reqs, pending>>
  /\ UNCHANGED <<outcome, cache, trains, locations>>

\* ------------------------------------------- socket "updateSchedule"
\* new Date(x) of an unparseable actual time makes the driver throw inside
\* db.update; the handler's catch logs the error
UpdateThrows(data) ==
  \/ "actualDeparture" \in DOMAIN data /\ data.actualDeparture = InvalidDate
  \/ "actualArrival" \in DOMAIN data /\ data.actualArrival = InvalidDate

\* the row .set({status, actualDeparture, actualArrival}) leaves: an absent
\* or empty time is written as null
UpdatedRow(row, data) ==
  [row EXCEPT !.status = data.status,
              !.actualDeparture =
                 IF "actualDeparture" \in DOMAIN data
                   THEN data.actualDeparture ELSE NULL,
              !.actualArrival =
                 IF "actualArrival" \in DOMAIN data
                   THEN data.actualArrival ELSE NULL]

\* what the handler does about a message once the update has answered:
\*   "logged"   the update threw: the catch writes to the server's console
\*   "dropped"  no row matched: updated.length is 0 and nothing is done
\*   "emit"     a row was updated: the broadcast follows
\* Nothing is sent to the requesting socket in any of them.
HandlerOutcome(data) ==
  IF UpdateThrows(data) THEN "logged"
  ELSE IF data.id \notin DOMAIN schedules THEN "dropped"
  ELSE "emit"

\* mutation: the broadcast is queued from the message, before the update
\* has answered
UpdateScheduleEmitFirst(data) ==
  /\ Len(pending) < MaxPending
  /\ pending' = Append(pending, [id |-> data.id, status |-> data.status])
  /\ IF data.id \in DOMAIN schedules /\ ~UpdateThrows(data)
       THEN schedules' = [schedules EXCEPT ![data.id] = UpdatedRow(@, data)]
       ELSE UNCHANGED schedules
  /\ outcome' = HandlerOutcome(data)
  /\ UNCHANGED <<nextId, reqs, cache, trains, locations>>

\* the handler up to its await: db.update(schedules).set(...)
\*   .where(id = data.id).returning().  When a row was updated the handler
\* resumes later with the returned row (EmitScheduleUpdated).
UpdateSchedule(data) ==
  /\ Len(pending) < MaxPending
  /\ IF data.id \in DOMAIN schedules /\ ~UpdateThrows(data)
       THEN /\ schedules' = [schedules EXCEPT ![data.id] = UpdatedRow(@, data)]
            /\ pending' = Append(pending, UpdatedRow(schedules[data.id], data))
       ELSE UNCHANGED <<schedules, pending>>
  /\ outcome' = HandlerOutcome(data)
  /\ UNCHANGED <<nextId, reqs, cache, trains, locations>>

\* pending without its k-th element
Resume(k) == [i \in 1..(Len(pending) - 1) |-> IF i < k THEN pending[i] ELSE pending[i + 1]]

\* a handler resumes after its await, in whatever order the pool's
\* connections answer: io.emit("scheduleUpdated", updated[0])
EmitScheduleUpdated(k) ==
  /\ k \in 1..Len(pending)
  /\ pending' = Resume(k)
  /\ UNCHANGED <<schedules, nextId, reqs>>
  /\ UNCHANGED <<outcome, cache, trains, locations>>

\* ---------------------------------------------------------- specification
\* the request bodies the clients send
Body(t, dep, arr, from, to, days) ==
  [trainId |-> t, scheduledDeparture |-> dep, scheduledArrival |-> arr,
   effectiveStartDate |-> from, effectiveEndDate |-> to, runningDays |-> days]

\* the six fields of a schedule that a create body carries
BodyOf(row) ==
  Body(row.trainId, row.scheduledDeparture, row.scheduledArrival,
       row.effectiveStartDate, row.effectiveEndDate, row.runningDays)

CreateBodies ==
  { Body(1, 1, 2, 1, NULL, MonFri),      \* Mon-Fri 1-2, open-ended
    Body(1, 1, 3, 2, 3, MonWedFri),      \* overlaps the first in all three
    Body(1, 1, 2, 1, NULL, SatSun),      \* same slot, no shared day
    Body(1, 2, 3, 1, NULL, MonFri),      \* back to back with the first
    Body(2, 1, 2, 1, NULL, MonFri),      \* another train
    Body(1, 2, 2, 1, NULL, MonFri),      \* arrival not after departure
    Body(1, 1, 2, 2, 2, MonFri) }        \* end date not after start date

ImportRows ==
  { [trainNumber |-> 1, scheduledDeparture |-> 1, scheduledArrival |-> 3],
    [trainNumber |-> 0, scheduledDeparture |-> 1, scheduledArrival |-> 3],
    [trainNumber |-> 2, scheduledDeparture |-> 2, scheduledArrival |-> 1] }

PatchBodies ==
  { [isCancelled |-> TRUE], [isCancelled |-> FALSE], [scheduledArrival |-> 1],
    [scheduledArrival |-> NULL] }

\* the cancel messages the clients emit
CancelMessages == { [id |-> i, status |-> "cancelled"] : i \in 1..MaxSchedules }

Init ==
  /\ schedules = <<>>
  /\ nextId = 1
  /\ reqs = [r \in Requests |-> IdleReq]
  /\ pending = <<>>
  /\ InitElsewhere

Next ==
  \/ \E body \in CreateBodies : CreateBegin(1, body)
  \/ CreateFinish(1)
  \/ \E row \in ImportRows : ImportRow(row, 1)
  \/ \E i \in 1..MaxSchedules, body \in PatchBodies : PatchSchedule(i, body)
  \/ \E i \in 1..MaxSchedules : DeleteSchedule(i)

Spec == Init /\ [][Next]_vars

TypeOK ==
  /\ nextId \in 1..(MaxSchedules + 1)
  /\ DOMAIN schedules \subseteq 1..(nextId - 1)
  /\ \A i \in DOMAIN schedules : schedules[i].id = i
  /\ Len(pending) <= MaxPending

\* ------------------------------------- specification: conflict detection
\* mutation: the query also marks the rows it returns as cancelled
DetectConflictsCancelling(r, body, excludeScheduleId) ==
  /\ reqs[r].pc = "idle"
  /\ ValidateCreate(body) = 0
  /\ reqs' = [reqs EXCEPT ![r] =
       [pc |-> "detected", code |-> 0, body |-> body, created |-> NULL,
        exclude |-> excludeScheduleId,
        conflicts |-> ConflictList(schedules, ConflictsOf(schedules, body))]]
  /\ schedules' = [i \in DOMAIN schedules |->
       IF i \in ConflictsOf(schedules, body)
         THEN [schedules[i] EXCEPT !.isCancelled = TRUE] ELSE schedules[i]]
  /\ UNCHANGED <<nextId, pending>>
  /\ UNCHANGED <<outcome, cache, trains, locations>>

\* checkScheduleConflicts applied to a stored table: `body` has passed the
\* handler's validation, excludeScheduleId is absent (NULL) or a schedule id
DetectConflicts(r, body, excludeScheduleId) ==
  /\ reqs[r].pc = "idle"
  /\ ValidateCreate(body) = 0
  /\ reqs' = [reqs EXCEPT ![r] =
       [pc |-> "detected", code |-> 0, body |-> body, created |-> NULL,
        exclude |-> excludeScheduleId,
        conflicts |->
          ConflictList(schedules,
            checkScheduleConflicts(schedules, body.trainId,
              body.scheduledDeparture, body.scheduledArrival,
              body.effectiveStartDate, body.effectiveEndDate,
              body.runningDays, excludeScheduleId))]]
  /\ UNCHANGED <<schedules, nextId, pending>>
  /\ UNCHANGED <<outcome, cache, trains, locations>>

DayPatterns == {MonFri, MonWedFri, SatSun}

\* every body over the bounded domain that passes the validation
ValidBodies ==
  { b \in { Body(t, dep, arr, from, to, days) :
              t \in TrainIds, dep \in Times, arr \in Times, from \in Dates,
              to \in Dates \cup {NULL}, days \in DayPatterns } :
      ValidateCreate(b) = 0 }

\* a table holding one schedule that a create stored, cancelled or not
InitDetect ==
  /\ \E b \in ValidBodies, c \in BOOLEAN :
       schedules = (1 :> [InsertedRow(1, b) EXCEPT !.isCancelled = c])
  /\ nextId = 2
  /\ reqs = [r \in Requests |-> IdleReq]
  /\ pending = <<>>
  /\ InitElsewhere

\* the check for a new candidate, or for the stored schedule's own fields
\* with its id excluded
NextDetect ==
  \/ \E body \in ValidBodies : DetectConflicts(1, body, NULL)
  \/ DetectConflicts(1, BodyOf(schedules[1]), 1)

SpecDetect == InitDetect /\ [][NextDetect]_vars

\* ------------------------------------ specification: the check called twice
\* a call, then a second call with the same arguments
NextTwice ==
  \/ \E body \in CreateBodies : DetectConflicts(1, body, NULL)
  \/ /\ reqs[1].pc = "detected"
     /\ DetectConflicts(2, reqs[1].body, reqs[1].exclude)

SpecTwice == InitDetect /\ [][NextTwice]_vars

\* ---------------------------------------- specification: status updates
\* the messages the clients emit: a status, with or without the actual times
SocketMessages ==
  { [id |-> i, status |-> s] : i \in 1..3, s \in Statuses }
  \cup { [id |-> i, status |-> "running", actualDeparture |-> 1] : i \in 1..3 }
  \cup { [id |-> i, status |-> "completed", actualArrival |-> 2] : i \in 1..3 }
  \cup { [id |-> i, status |-> "completed", actualDeparture |-> 2,
          actualArrival |-> 1] : i \in 1..3 }
  \cup { [id |-> i, status |-> "arrived"] : i \in 1..3 }

StatusPatches == { [status |-> "cancelled"], [isCancelled |-> TRUE] }

\* edits that set an actual time to null
ClearPatches == { [actualDeparture |-> NULL], [actualArrival |-> NULL] }

\* two schedules of different trains, as created
InitStatus ==
  /\ schedules = (1 :> InsertedRow(1, Body(1, 1, 2, 1, NULL, MonFri)))
                 @@ (2 :> InsertedRow(2, Body(2, 2, 3, 1, NULL, MonFri)))
  /\ nextId = 3
  /\ reqs = [r \in Requests |-> IdleReq]
  /\ pending = <<>>
  /\ InitElsewhere

NextStatus ==
  \/ \E data \in SocketMessages : UpdateSchedule(data)
  \/ \E i \in 1..3, body \in StatusPatches \cup ClearPatches : PatchSchedule(i, body)
  \/ \E k \in 1..MaxPending : EmitScheduleUpdated(k)

SpecStatus == InitStatus /\ [][NextStatus]_vars

\* ------------------------------------- specification: concurrent creates
\* bodies for train 1 that conflict pairwise or not at all, and one for train 2
RaceBodies ==
  { Body(1, 1, 2, 1, NULL, MonFri), Body(1, 1, 3, 2, 3, MonWedFri),
    Body(1, 2, 3, 1, NULL, MonFri), Body(2, 1, 2, 1, NULL, MonFri) }

NextRace ==
  \/ \E r \in Requests, body \in RaceBodies : CreateBegin(r, body)
  \/ \E r \in Requests : CreateFinish(r)

SpecRace == Init /\ [][NextRace]_vars

\* --------------------------- specification: concurrent creates, two trains
\* two bodies for train 1 that conflict, and one for train 2 that overlaps
\* both in times, dates and days
TrainBodies ==
  { Body(1, 1, 2, 1, NULL, MonFri), Body(1, 1, 3, 2, 3, MonWedFri),
    Body(2, 1, 2, 1, NULL, MonFri) }

NextTrains ==
  \/ \E r \in Requests, body \in TrainBodies : CreateBegin(r, body)
  \/ \E r \in Requests : CreateFinish(r)

SpecTrains == Init /\ [][NextTrains]_vars

\* ------------------------------------ specification: create validation
\* the create bodies, and bodies whose runningDays array is not a week
ValidationBodies ==
  CreateBodies
  \cup { Body(1, 1, 2, 1, NULL, <<TRUE, TRUE, TRUE>>),
         Body(2, 2, 3, 1, 3, <<>>),
         Body(2, 1, 2, 1, NULL, <<TRUE, FALSE, FALSE, FALSE, FALSE, FALSE, FALSE, TRUE>>),
         Body(1, InvalidDate, 2, 1, NULL, MonFri) }

NextValidate ==
  \/ \E body \in ValidationBodies : CreateBegin(1, body)
  \/ CreateFinish(1)

SpecValidate == Init /\ [][NextValidate]_vars

\* ------------------------------------------------- specification: edits
\* the JSON bodies of the edits: new running days, another train, the
\* cancelled flag, a new arrival time
EditBodies ==
  { [runningDays |-> d] : d \in DayPatterns }
  \cup { [trainId |-> t] : t \in TrainIds }
  \cup { [isCancelled |-> c] : c \in BOOLEAN }
  \cup { [scheduledArrival |-> 3] }

\* two schedules of one train, same slot, no shared day, as created
InitEdit ==
  /\ schedules = (1 :> InsertedRow(1, Body(1, 1, 2, 1, NULL, MonFri)))
                 @@ (2 :> InsertedRow(2, Body(1, 1, 2, 1, NULL, SatSun)))
  /\ nextId = 3
  /\ reqs = [r \in Requests |-> IdleReq]
  /\ pending = <<>>
  /\ InitElsewhere

NextEdit ==
  \E i \in 1..3, body \in EditBodies : PatchSchedule(i, body)

SpecEdit == InitEdit /\ [][NextEdit]_vars

\* ------------------------------------------- specification: broadcasts
\* the messages of the operators' buttons, for stored and unknown ids, and a
\* message whose actual time does not parse
BroadcastMessages ==
  { [id |-> i, status |-> "running", actualDeparture |-> 1] : i \in 1..3 }
  \cup { [id |-> i, status |-> "delayed"] : i \in 1..3 }
  \cup { [id |-> i, status |-> "completed", actualArrival |-> 2] : i \in 1..3 }
  \cup { [id |-> i, status |-> "running", actualDeparture |-> InvalidDate] : i \in 1..3 }

NextBroadcast ==
  \/ \E data \in BroadcastMessages : UpdateSchedule(data)
  \/ \E k \in 1..MaxPending : EmitScheduleUpdated(k)
  \/ \E i \in 1..3, body \in StatusPatches : PatchSchedule(i, body)

SpecBroadcast == InitStatus /\ [][NextBroadcast]_vars

\* ------------------------------------------- DELETE /api/locations/:id
\* the schedules that name the location as departure or arrival
SchedulesWithLocation(locationId) ==
  {i \in DOMAIN schedules :
     \/ "departureLocationId" \in DOMAIN schedules[i]
          /\ schedules[i].departureLocationId = locationId
     \/ "arrivalLocationId" \in DOMAIN schedules[i]
          /\ schedules[i].arrivalLocationId = locationId}

\* a slot of a delete request for `locationId`
LocationReq(pc, code, locationId) ==
  [pc |-> pc, code |-> code, conflicts |-> {}, created |-> NULL,
   locationId |-> locationId]

\* request r arrives: the select of the location, 404 when there is none
DeleteLocationBegin(r, locationId) ==
  /\ reqs[r].pc \in {"idle", "done"}
  /\ reqs' = [reqs EXCEPT ![r] =
       IF locationId \in locations
         THEN LocationReq("found", 0, locationId)
         ELSE LocationReq("done", 404, locationId)]
  /\ UNCHANGED <<schedules, nextId, pending, outcome, cache, trains, locations>>

\* the select of a schedule that uses the location, 400 when there is one
DeleteLocationCheck(r) ==
  /\ reqs[r].pc = "found"
  /\ reqs' = [reqs EXCEPT ![r] =
       IF SchedulesWithLocation(reqs[r].locationId) # {}
         THEN LocationReq("done", 400, reqs[r].locationId)
         ELSE LocationReq("unreferenced", 0, reqs[r].locationId)]
  /\ UNCHANGED <<schedules, nextId, pending, outcome, cache, trains, locations>>

\* mutation: the schedules table does not reference the locations
DeleteLocationFinishNoReference(r) ==
  /\ reqs[r].pc = "unreferenced"
  /\ locations' = locations \ {reqs[r].locationId}
  /\ reqs' = [reqs EXCEPT ![r] = LocationReq("done", 200, reqs[r].locationId)]
  /\ UNCHANGED <<schedules, nextId, pending, outcome, cache, trains>>

\* db.delete(locations).where(id = locationId): the database refuses it while
\* a schedule references the location, and the catch answers 500
DeleteLocationFinish(r) ==
  /\ reqs[r].pc = "unreferenced"
  /\ IF SchedulesWithLocation(reqs[r].locationId) # {}
       THEN /\ reqs' = [reqs EXCEPT ![r] = LocationReq("done", 500, reqs[r].locationId)]
            /\ UNCHANGED locations
       ELSE /\ reqs' = [reqs EXCEPT ![r] = LocationReq("done", 200, reqs[r].locationId)]
            /\ locations' = locations \ {reqs[r].locationId}
  /\ UNCHANGED <<schedules, nextId, pending, outcome, cache, trains>>

\* create bodies that name their locations: from d to the next location
LocatedBodies ==
  { Body(t, 1, 2, 1, NULL, MonFri)
      @@ [departureLocationId |-> d, arrivalLocationId |-> (d % NumLocations) + 1] :
      t \in TrainIds, d \in LocationIds }

NextLocations ==
  \/ \E body \in LocatedBodies : CreateBegin(1, body)
  \/ CreateFinish(1)
  \/ \E i \in 1..MaxSchedules : DeleteSchedule(i)
  \/ \E l \in 1..(NumLocations + 1) : DeleteLocationBegin(2, l)
  \/ DeleteLocationCheck(2)
  \/ DeleteLocationFinish(2)

SpecLocations == Init /\ [][NextLocations]_vars

\* ------------------------------------------- POST /api/admin/clean-tables
\* validTables of the selective endpoint
ValidTables == {"schedules", "trains", "locations"}

\* the tables as the transaction sees them before its first statement
TxBegin ==
  [schedules |-> schedules, trains |-> trains, locations |-> locations,
   failed |-> FALSE]

\* the inner join of trains and schedules on schedules.trainId
TrainsInUse(tx) ==
  {t \in tx.trains : \E i \in DOMAIN tx.schedules : tx.schedules[i].trainId = t}

\* the inner join of locations and schedules on either location column
LocationsInUse(tx) ==
  {l \in tx.locations : \E i \in DOMAIN tx.schedules :
     \/ "departureLocationId" \in DOMAIN tx.schedules[i]
          /\ tx.schedules[i].departureLocationId = l
     \/ "arrivalLocationId" \in DOMAIN tx.schedules[i]
          /\ tx.schedules[i].arrivalLocationId = l}

\* one case of the switch: tx.delete(table). With preserveReferences the
\* handler throws when the join finds a row; without it the delete of a
\* referenced train or location is refused by the foreign key. Either way
\* the transaction callback rejects.
TxDelete(tx, table, preserveReferences) ==
  IF tx.failed THEN tx
  ELSE IF table = "schedules" THEN [tx EXCEPT !.schedules = <<>>]
  ELSE IF table = "trains"
    THEN IF preserveReferences /\ TrainsInUse(tx) # {}
           THEN [tx EXCEPT !.failed = TRUE]
         ELSE IF TrainsInUse(tx) # {}
           THEN [tx EXCEPT !.failed = TRUE]
         ELSE [tx EXCEPT !.trains = {}]
  ELSE IF table = "locations"
    THEN IF preserveReferences /\ LocationsInUse(tx) # {}
           THEN [tx EXCEPT !.failed = TRUE]
         ELSE IF LocationsInUse(tx) # {}
           THEN [tx EXCEPT !.failed = TRUE]
         ELSE [tx EXCEPT !.locations = {}]
  ELSE tx

\* for (const table of tables) switch (table) ...
RECURSIVE TxRun(_, _, _)
TxRun(tx, tables, preserveReferences) ==
  IF tables = <<>> THEN tx
  ELSE TxRun(TxDelete(tx, Head(tables), preserveReferences), Tail(tables),
             preserveReferences)

\* [...tables].sort(...): 'schedules' to the front, the rest as given
SortedTables(tables) ==
  SelectSeq(tables, LAMBDA t : t = "schedules")
    \o SelectSeq(tables, LAMBDA t : t # "schedules")

\* a slot of a clean request for `tables`
CleanReq(pc, code, tables, preserveReferences) ==
  [pc |-> pc, code |-> code, conflicts |-> {}, created |-> NULL,
   tables |-> tables, preserveReferences |-> preserveReferences]

\* the selective endpoint: an empty list or an unknown name is answered 400;
\* otherwise the transaction takes the tables in the order of the request
CleanTablesBegin(r, tables) ==
  /\ reqs[r].pc \in {"idle", "done"}
  /\ reqs' = [reqs EXCEPT ![r] =
       IF tables = <<>> \/ \E i \in DOMAIN tables : tables[i] \notin ValidTables
         THEN CleanReq("done", 400, tables, FALSE)
         ELSE CleanReq("cleaning", 0, tables, FALSE)]
  /\ UNCHANGED <<schedules, nextId, pending, outcome, cache, trains, locations>>

\* the endpoint with preserveReferences: the schema refuses an empty list,
\* and the transaction takes the sorted tables
CleanTablesPreservingBegin(r, tables, preserveReferences) ==
  /\ reqs[r].pc \in {"idle", "done"}
  /\ reqs' = [reqs EXCEPT ![r] =
       IF tables = <<>> \/ \E i \in DOMAIN tables : tables[i] \notin ValidTables
         THEN CleanReq("done", 500, tables, preserveReferences)
         ELSE CleanReq("cleaning", 0, SortedTables(tables), preserveReferences)]
  /\ UNCHANGED <<schedules, nextId, pending, outcome, cache, trains, locations>>

\* mutation: the deletes run on db, outside a transaction, so those before
\* the failing one stay
CleanTablesCommitNoTransaction(r) ==
  /\ reqs[r].pc = "cleaning"
  /\ LET tx == TxRun(TxBegin, reqs[r].tables, reqs[r].preserveReferences)
     IN  /\ schedules' = tx.schedules
         /\ trains' = tx.trains
         /\ locations' = tx.locations
         /\ reqs' = [reqs EXCEPT ![r] =
              CleanReq("done", IF tx.failed THEN 500 ELSE 200,
                       reqs[r].tables, reqs[r].preserveReferences)]
  /\ UNCHANGED <<nextId, pending, outcome, cache>>

\* await db.transaction(...): a rejected callback rolls every delete back and
\* the catch answers 500; otherwise the deletes are committed together
CleanTablesCommit(r) ==
  /\ reqs[r].pc = "cleaning"
  /\ LET tx == TxRun(TxBegin, reqs[r].tables, reqs[r].preserveReferences)
     IN  IF tx.failed
           THEN /\ UNCHANGED <<schedules, trains, locations>>
                /\ reqs' = [reqs EXCEPT ![r] =
                     CleanReq("done", 500, reqs[r].tables, reqs[r].preserveReferences)]
           ELSE /\ schedules' = tx.schedules
                /\ trains' = tx.trains
                /\ locations' = tx.locations
                /\ reqs' = [reqs EXCEPT ![r] =
                     CleanReq("done", 200, reqs[r].tables, reqs[r].preserveReferences)]
  /\ UNCHANGED <<nextId, pending, outcome, cache>>

\* the requests of the admin page: one or two tables, none, an unknown one
TableLists ==
  { <<>>, <<"users">> }
  \cup { <<t>> : t \in ValidTables }
  \cup { <<t, u>> : t, u \in ValidTables }

\* schedules with and without locations
CleanBodies ==
  { Body(1, 1, 2, 1, NULL, MonFri), Body(2, 1, 2, 1, NULL, MonFri),
    Body(1, 1, 2, 1, NULL, MonFri)
      @@ [departureLocationId |-> 1, arrivalLocationId |-> 2] }

NextClean ==
  \/ \E body \in CleanBodies : CreateBegin(1, body)
  \/ CreateFinish(1)
  \/ \E i \in 1..MaxSchedules : DeleteSchedule(i)
  \/ \E tables \in TableLists : CleanTablesBegin(2, tables)
  \/ \E tables \in TableLists, preserveReferences \in BOOLEAN :
       CleanTablesPreservingBegin(2, tables, preserveReferences)
  \/ CleanTablesCommit(2)

SpecClean == Init /\ [][NextClean]_vars

\* ------------------------------------------ client: "scheduleUpdated"
\* oldData.map(schedule => schedule.id === updatedSchedule.id
\*   ? updatedSchedule : schedule)
ReplaceIn(list, updatedSchedule) ==
  [i \in 1..Len(list) |->
     IF list[i].id = updatedSchedule.id THEN updatedSchedule ELSE list[i]]

\* mutation: the listener upserts, moving the updated schedule to the end
OnScheduleUpdatedUpsert(updatedSchedule) ==
  /\ cache' = [loaded |-> TRUE,
               data |-> Append(SelectSeq(cache.data, LAMBDA x : x.id # updatedSchedule.id),
                              updatedSchedule)]
  /\ UNCHANGED <<schedules, nextId, reqs, pending, outcome, trains, locations>>

\* queryClient.setQueryData(['schedules'], oldData =>
\*   !oldData ? [updatedSchedule]
\*            : oldData.map(s => s.id === updatedSchedule.id ? updatedSchedule : s))
OnScheduleUpdated(updatedSchedule) ==
  /\ cache' = IF ~cache.loaded
                THEN [loaded |-> TRUE, data |-> <<updatedSchedule>>]
                ELSE [loaded |-> TRUE, data |-> ReplaceIn(cache.data, updatedSchedule)]
  /\ UNCHANGED <<schedules, nextId, reqs, pending, outcome, trains, locations>>

\* the schedules a fetch can have put in the cache, all still scheduled
CachedSchedules == { [id |-> i, status |-> DefaultStatus] : i \in 1..(MaxCache + 1) }

\* the lists a fetch returns: no id twice
FetchedLists ==
  UNION { {l \in [1..n -> CachedSchedules] : \A i, j \in 1..n : l[i].id = l[j].id => i = j} : n \in 0..MaxCache }

\* the payloads of the broadcasts
ScheduleEvents ==
  { [id |-> i, status |-> s] : i \in 1..(MaxCache + 1), s \in Statuses \ {DefaultStatus} }

InitClient ==
  /\ schedules = <<>>
  /\ nextId = 1
  /\ reqs = [r \in Requests |-> IdleReq]
  /\ pending = <<>>
  /\ outcome = "none"
  /\ trains = TrainIds
  /\ locations = LocationIds
  /\ cache \in {Undefined} \cup { [loaded |-> TRUE, data |-> l] : l \in FetchedLists }

NextClient == \E e \in ScheduleEvents : OnScheduleUpdated(e)

SpecClient == InitClient /\ [][NextClient]_vars

\* ------------------------------- specification: creates and cancellations
\* creates, and the clients' cancel messages between them
NextCancel ==
  \/ \E body \in RaceBodies : CreateBegin(1, body)
  \/ CreateFinish(1)
  \/ \E data \in CancelMessages : UpdateSchedule(data)
  \/ \E k \in 1..MaxPending : EmitScheduleUpdated(k)

SpecCancel == Init /\ [][NextCancel]_vars

\* ------------------------------------------------------------- properties
\* The three overlaps as the specification words them, for two schedules or
\* request bodies a and b.
EndOrInfinity(x) == IF x.effectiveEndDate = NULL THEN MaxDate + 2 ELSE x.effectiveEndDate

DateRangesOverlap(a, b) ==
  /\ a.effectiveStartDate <= EndOrInfinity(b)
  /\ b.effectiveStartDate <= EndOrInfinity(a)

IntervalsOverlap(a, b) ==
  /\ a.scheduledDeparture < b.scheduledArrival
  /\ b.scheduledDeparture < a.scheduledArrival

ShareRunningDay(a, b) == \E i \in 1..7 : a.runningDays[i] /\ b.runningDays[i]

InConflict(a, b) ==
  DateRangesOverlap(a, b) /\ IntervalsOverlap(a, b) /\ ShareRunningDay(a, b)

NotCancelled(row) == row.isCancelled = FALSE /\ row.status # "cancelled"

ReportedIds(r) == {c.id : c \in reqs[r].conflicts}

AllowedTransitions ==
  { <<"scheduled", "running">>, <<"scheduled", "delayed">>,
    <<"scheduled", "cancelled">>,
    <<"running", "delayed">>, <<"running", "completed">>,
    <<"running", "cancelled">>,
    <<"delayed", "running">>, <<"delayed", "completed">>,
    <<"delayed", "cancelled">> }

\* C1: no two stored schedules of one train that are both non-cancelled
\* conflict (date ranges, departure/arrival intervals and running days all
\* overlapping).
C1_NoOverlappingDuties ==
  \A i \in DOMAIN schedules : \A j \in DOMAIN schedules :
    (/\ i # j
     /\ schedules[i].trainId = schedules[j].trainId
     /\ NotCancelled(schedules[i])
     /\ NotCancelled(schedules[j]))
    => ~InConflict(schedules[i], schedules[j])

\* C2: a stored, non-cancelled schedule of the candidate's train is reported
\* exactly when the date ranges overlap (absent end = +infinity), the
\* intervals overlap strictly, and a running day is shared.
C2_ReportedIffAllThree ==
  \A r \in Requests :
    (reqs[r].pc = "detected" /\ reqs[r].exclude = NULL) =>
      \A i \in DOMAIN schedules :
        (/\ schedules[i].trainId = reqs[r].body.trainId
         /\ schedules[i].isCancelled = FALSE)
        => ((i \in ReportedIds(r)) <=> InConflict(reqs[r].body, schedules[i]))

C2_Witness ==
  /\ reqs[1].pc = "detected"
  /\ reqs[1].exclude = NULL
  /\ 1 \in DOMAIN schedules
  /\ schedules[1].trainId = reqs[1].body.trainId
  /\ schedules[1].isCancelled = FALSE
  /\ schedules[1].effectiveEndDate # NULL
  /\ reqs[1].body.effectiveEndDate = NULL
  /\ InConflict(reqs[1].body, schedules[1])
  /\ 1 \in ReportedIds(1)

\* C3: two concurrent creates of one train whose candidates conflict with
\* each other are never both inserted.
C3_AtMostOneCommits ==
  \A r1 \in Requests : \A r2 \in Requests :
    (/\ r1 # r2
     /\ reqs[r1].pc = "done" /\ reqs[r1].code = 200
     /\ reqs[r2].pc = "done" /\ reqs[r2].code = 200
     /\ reqs[r1].created \in DOMAIN schedules
     /\ reqs[r2].created \in DOMAIN schedules
     /\ schedules[reqs[r1].created].trainId = schedules[reqs[r2].created].trainId)
    => ~InConflict(schedules[reqs[r1].created], schedules[reqs[r2].created])

\* C4: every change of a stored schedule's status follows an edge of the
\* allowed transition table.
C4_OnlyAllowedTransitions ==
  [][\A i \in DOMAIN schedules \cap DOMAIN schedules' :
       schedules'[i].status # schedules[i].status
       => <<schedules[i].status, schedules'[i].status>> \in AllowedTransitions]_vars

\* C5: once a schedule is completed or cancelled, no status update request
\* changes its status.
C5_TerminalStatuses ==
  [][\A data \in SocketMessages :
       (/\ UpdateSchedule(data)
        /\ data.id \in DOMAIN schedules
        /\ schedules[data.id].status \in {"completed", "cancelled"})
       => schedules'[data.id].status = schedules[data.id].status]_vars

\* C6: a status update that the table does not permit from the current
\* status leaves status, actualDeparture and actualArrival as they were.
C6_RejectedUpdateNoMutation ==
  [][\A data \in SocketMessages :
       (/\ UpdateSchedule(data)
        /\ data.id \in DOMAIN schedules
        /\ <<schedules[data.id].status, data.status>> \notin AllowedTransitions)
       => /\ schedules'[data.id].status = schedules[data.id].status
          /\ schedules'[data.id].actualDeparture = schedules[data.id].actualDeparture
          /\ schedules'[data.id].actualArrival = schedules[data.id].actualArrival]_vars

Touching(a, b) ==
  \/ a.scheduledArrival = b.scheduledDeparture
  \/ b.scheduledArrival = a.scheduledDeparture

\* C8: a stored schedule whose interval only touches the candidate's is not
\* in the candidate's conflict set, whatever the dates and running days.
C8_BackToBackNoConflict ==
  \A r \in Requests :
    reqs[r].pc = "checked" =>
      \A i \in DOMAIN schedules :
        Touching(schedules[i], reqs[r].body) => i \notin ReportedIds(r)

\* the second of two back-to-back schedules of one train, with overlapping
\* dates and running days, has been created
C8_Witness ==
  /\ reqs[1].pc = "done"
  /\ reqs[1].code = 200
  /\ reqs[1].created \in DOMAIN schedules
  /\ \E i \in DOMAIN schedules :
       /\ i < reqs[1].created
       /\ schedules[i].trainId = schedules[reqs[1].created].trainId
       /\ NotCancelled(schedules[i])
       /\ Touching(schedules[i], schedules[reqs[1].created])
       /\ DateRangesOverlap(schedules[i], schedules[reqs[1].created])
       /\ ShareRunningDay(schedules[i], schedules[reqs[1].created])

C10_SelfExcluded ==
  \A r \in Requests :
    (/\ reqs[r].pc = "detected"
     /\ reqs[r].exclude \in DOMAIN schedules
     /\ reqs[r].body = BodyOf(schedules[reqs[r].exclude]))
    => reqs[r].exclude \notin ReportedIds(r)

\* the call was made for a live schedule, which the query without the
\* exclusion returns
C10_Witness ==
  /\ reqs[1].pc = "detected"
  /\ reqs[1].exclude = 1
  /\ reqs[1].body = BodyOf(schedules[1])
  /\ schedules[1].isCancelled = FALSE
  /\ 1 \in ConflictsOf(schedules, reqs[1].body)
  /\ reqs[1].conflicts = {}

C12_CancelledNeverBlocks ==
  [][\A r \in Requests :
       (reqs[r].pc # "checked" /\ reqs'[r].pc = "checked") =>
         \A c \in reqs'[r].conflicts :
           /\ schedules[c.id].status # "cancelled"
           /\ schedules[c.id].isCancelled = FALSE]_vars

\* the rows of the table that belong to train t
RowsOfTrain(store, t) ==
  [i \in {j \in DOMAIN store : store[j].trainId = t} |-> store[i]]

\* C13: the conflicts a create's check returns are those it would return on
\* the rows of its own train alone, whatever other trains' schedules are
\* stored or being created at the same time, and the create is rejected
\* exactly when that set is not empty.
C13_OwnTrainOnly ==
  [][\A r \in Requests :
       /\ (reqs[r].pc # "checked" /\ reqs'[r].pc = "checked") =>
            LET own == RowsOfTrain(schedules, reqs'[r].body.trainId)
            IN  reqs'[r].conflicts =
                  ConflictList(own, ConflictsOf(own, reqs'[r].body))
       /\ (reqs[r].pc = "checked" /\ reqs'[r].pc = "done") =>
            LET own == RowsOfTrain(schedules, reqs[r].body.trainId)
            IN  /\ (reqs'[r].code = 409) = (reqs[r].conflicts # {})
                /\ (reqs'[r].code = 200) = (reqs[r].conflicts = {})
                /\ ReportedIds(r) \subseteq DOMAIN own]_vars

\* two creates of different trains, same times, dates and days: both stored
C13_Witness ==
  \E r, q \in Requests :
    /\ reqs[r].pc = "done" /\ reqs[r].code = 200
    /\ reqs[q].pc = "done" /\ reqs[q].code = 200
    /\ reqs[r].created \in DOMAIN schedules
    /\ reqs[q].created \in DOMAIN schedules
    /\ schedules[reqs[r].created].trainId # schedules[reqs[q].created].trainId
    /\ IntervalsOverlap(schedules[reqs[r].created], schedules[reqs[q].created])
    /\ DateRangesOverlap(schedules[reqs[r].created], schedules[reqs[q].created])
    /\ ShareRunningDay(schedules[reqs[r].created], schedules[reqs[q].created])

\* what the booking rules require of a create body or a stored schedule
WellFormed(x) ==
  /\ x.scheduledArrival > x.scheduledDeparture
  /\ x.effectiveEndDate = NULL \/ x.effectiveEndDate > x.effectiveStartDate
  /\ Len(x.runningDays) = 7

\* C14: a create whose arrival is not after its departure, whose end date is
\* not after its start date, or whose runningDays has not seven entries never
\* reaches conflict detection and is never stored.
C14_InvalidRejected ==
  /\ \A r \in Requests : reqs[r].pc = "checked" => WellFormed(reqs[r].body)
  /\ \A i \in DOMAIN schedules : WellFormed(schedules[i])

\* C15: every stored schedule has isCancelled = TRUE exactly when its status
\* is cancelled.
C15_CancelledFlagMatchesStatus ==
  \A i \in DOMAIN schedules :
    (schedules[i].isCancelled = TRUE) = (schedules[i].status = "cancelled")

\* C16: the status of every stored schedule is one of the five statuses.
C16_StatusInEnumeration ==
  \A i \in DOMAIN schedules : schedules[i].status \in Statuses

\* C17: a completed schedule with both actual times set arrived strictly
\* after it departed.
C17_CompletedArrivalAfterDeparture ==
  \A i \in DOMAIN schedules :
    (/\ schedules[i].status = "completed"
     /\ schedules[i].actualDeparture # NULL
     /\ schedules[i].actualArrival # NULL)
      => schedules[i].actualArrival > schedules[i].actualDeparture

\* C18: an update that leaves a schedule running leaves its actualDeparture
\* set and not earlier than its scheduledDeparture.
C18_RunningHasDeparture ==
  [][\A data \in SocketMessages :
       (/\ UpdateSchedule(data)
        /\ data.status = "running"
        /\ data.id \in DOMAIN schedules
        /\ schedules'[data.id].status = "running")
         => /\ schedules'[data.id].actualDeparture # NULL
            /\ schedules'[data.id].actualDeparture
                 >= schedules'[data.id].scheduledDeparture]_vars

\* the fields of a schedule whose edit calls for conflict detection
RecurrenceOf(row) ==
  <<row.scheduledDeparture, row.scheduledArrival, row.runningDays,
    row.effectiveStartDate, row.effectiveEndDate>>

\* C19: a step that changes the times, running days or effective dates of a
\* stored schedule leaves values for which conflict detection, with that
\* schedule's id excluded, finds no conflict.
C19_EditPersistedOnlyWithoutConflict ==
  [][\A i \in DOMAIN schedules \cap DOMAIN schedules' :
       RecurrenceOf(schedules'[i]) # RecurrenceOf(schedules[i]) =>
         checkScheduleConflicts(schedules, schedules'[i].trainId,
           schedules'[i].scheduledDeparture, schedules'[i].scheduledArrival,
           schedules'[i].effectiveStartDate, schedules'[i].effectiveEndDate,
           schedules'[i].runningDays, i) = {}]_vars

\* C20: a broadcast is queued only by the step that commits its write, and
\* carries the row as that write stored it; a message whose update throws or
\* matches no row changes nothing and queues no broadcast; a queued payload
\* is emitted as it was queued.
C20_BroadcastCarriesCommittedState ==
  [][ /\ (Len(pending') > Len(pending)) =>
           (/\ pending' = Append(pending, pending'[Len(pending')])
            /\ pending'[Len(pending')].id \in DOMAIN schedules'
            /\ schedules'[pending'[Len(pending')].id] = pending'[Len(pending')])
      /\ (Len(pending') <= Len(pending)) =>
           (\/ pending' = pending
            \/ \E k \in 1..Len(pending) :
                 pending' = Resume(k) /\ schedules' = schedules)
      /\ \A data \in BroadcastMessages :
           (/\ UpdateSchedule(data)
            /\ UpdateThrows(data) \/ data.id \notin DOMAIN schedules)
             => (pending' = pending /\ schedules' = schedules) ]_vars

\* an update has been committed and its broadcast is due, carrying the
\* stored row; another update failed on the way
C20_Witness ==
  /\ Len(pending) = 1
  /\ pending[1].status = "running"
  /\ pending[1].actualDeparture = 1
  /\ schedules[pending[1].id] = pending[1]

\* C21: every step that commits a create or a status update queues the
\* change event that the broadcaster then emits.
C21_CommitQueuesEvent ==
  [][/\ (\E i \in DOMAIN schedules' : i \notin DOMAIN schedules)
          => Len(pending') = Len(pending) + 1
     /\ \A data \in CancelMessages :
          (UpdateSchedule(data) /\ data.id \in DOMAIN schedules)
            => Len(pending') = Len(pending) + 1]_vars

\* C22: the broadcasts for one schedule id are emitted in the order in which
\* its updates were persisted: a handler never emits while the broadcast of
\* an earlier, different update of the same id is still due.
C22_BroadcastsInPersistOrder ==
  [][\A k \in 1..Len(pending) :
       EmitScheduleUpdated(k) =>
         \A j \in 1..(k - 1) :
           pending[j].id = pending[k].id => pending[j] = pending[k]]_vars

\* C23: a status update whose id matches no schedule, or whose update throws,
\* is answered to the requester with an error; the handler never ends with
\* the message dropped or only logged on the server.
C23_FailuresReported == outcome \notin {"dropped", "logged"}

\* C24: every stored schedule arrives after it departs, whatever creates,
\* imports and edits produced it.
C24_ArrivalAfterDeparture ==
  \A i \in DOMAIN schedules :
    schedules[i].scheduledArrival > schedules[i].scheduledDeparture

\* a created schedule, and an imported one that an edit has cancelled
C24_Witness ==
  \E i, j \in DOMAIN schedules :
    /\ i # j
    /\ reqs[1].pc = "done" /\ reqs[1].created = i
    /\ schedules[j].runningDays = AllDays
    /\ schedules[j].isCancelled = TRUE

\* C25: a schedule has no actual times when it is stored, and its actual
\* times change only in a step of the status update handler for its id.
C25_ActualTimesOnlyByTransition ==
  [][\A i \in DOMAIN schedules' :
       IF i \in DOMAIN schedules
         THEN (\/ schedules'[i].actualDeparture # schedules[i].actualDeparture
               \/ schedules'[i].actualArrival # schedules[i].actualArrival)
                => \E data \in SocketMessages : data.id = i /\ UpdateSchedule(data)
         ELSE /\ schedules'[i].actualDeparture = NULL
              /\ schedules'[i].actualArrival = NULL]_vars

\* C26: the conflict list of a create is sorted by ascending schedule id,
\* each entry carries exactly id, scheduledDeparture and scheduledArrival, and
\* the list is empty exactly when no schedule conflicts.
C26_ConflictListSorted ==
  \A r \in Requests :
    "list" \in DOMAIN reqs[r] =>
      /\ \A i, j \in 1..Len(reqs[r].list) :
           i < j => reqs[r].list[i].id < reqs[r].list[j].id
      /\ \A i \in 1..Len(reqs[r].list) :
           DOMAIN reqs[r].list[i] = {"id", "scheduledDeparture", "scheduledArrival"}
      /\ (reqs[r].list = <<>>) = (reqs[r].conflicts = {})

\* C27: a status update message that supplies no actualDeparture leaves the
\* stored actualDeparture as it was, and one that supplies no actualArrival
\* leaves the stored actualArrival as it was.
C27_OmittedTimesKept ==
  [][\A data \in SocketMessages :
       (UpdateSchedule(data) /\ data.id \in DOMAIN schedules) =>
         /\ "actualDeparture" \notin DOMAIN data =>
              schedules'[data.id].actualDeparture = schedules[data.id].actualDeparture
         /\ "actualArrival" \notin DOMAIN data =>
              schedules'[data.id].actualArrival = schedules[data.id].actualArrival]_vars

\* C28: when the client processes a scheduleUpdated event on a non-empty
\* cached list, the list keeps its length and its order of ids, every entry
\* with the event's id becomes the payload and every other entry is
\* unchanged; so a change of the list is the replacement, in place, of the
\* entries of one id that was in it.
C28_CacheEntryReplaced ==
  [][(cache.loaded /\ cache.data # <<>> /\ cache' # cache) =>
       \E e \in ScheduleEvents :
         /\ cache'.loaded
         /\ Len(cache'.data) = Len(cache.data)
         /\ \E i \in 1..Len(cache.data) : cache.data[i].id = e.id
         /\ \A i \in 1..Len(cache.data) :
              /\ cache'.data[i].id = cache.data[i].id
              /\ cache.data[i].id = e.id => cache'.data[i] = e
              /\ cache.data[i].id # e.id => cache'.data[i] = cache.data[i]]_vars

\* a list of two whose first entry has been replaced by a payload and whose
\* second is as fetched
C28_Witness ==
  /\ cache.loaded
  /\ Len(cache.data) = 2
  /\ cache.data[1].status = "running"
  /\ cache.data[2].status = DefaultStatus

\* C29: DELETE /api/locations/:id never removes a location that a stored
\* schedule references; a request that finds its location referenced is
\* answered with an error and leaves the locations unchanged; a request for
\* an id that does not exist is answered 404 and changes nothing.
C29_ReferencedLocationKept ==
  [][/\ \A l \in locations \ locations' : SchedulesWithLocation(l) = {}
     /\ \A r \in Requests :
          ("locationId" \in DOMAIN reqs'[r] /\ reqs'[r] # reqs[r] /\ reqs'[r].pc = "done") =>
            /\ (reqs[r].pc \in {"found", "unreferenced"}
                 /\ SchedulesWithLocation(reqs'[r].locationId) # {})
                 => reqs'[r].code \in {400, 500} /\ locations' = locations
            /\ reqs[r].pc \in {"idle", "done"}
                 => /\ reqs'[r].locationId \notin locations
                    /\ reqs'[r].code = 404
                    /\ locations' = locations /\ schedules' = schedules
            /\ reqs'[r].code = 200
                 => locations' = locations \ {reqs'[r].locationId}
     /\ \A r \in Requests :
          ("locationId" \in DOMAIN reqs'[r] /\ reqs'[r].pc = "found")
            => reqs'[r].locationId \in locations]_vars

\* a delete answered with an error while a schedule uses the location, which
\* is still there
C29_Witness ==
  \E r \in Requests :
    /\ "locationId" \in DOMAIN reqs[r]
    /\ reqs[r].pc = "done" /\ reqs[r].code \in {400, 500}
    /\ reqs[r].locationId \in locations
    /\ SchedulesWithLocation(reqs[r].locationId) # {}

====
